---- MODULE Spec2Model ----
(***************************************************************************)
(* Model of the message-delivery hub (package hub): the client registry    *)
(* Hub.Clients (identity -> unbuffered channel), the HTTP handlers          *)
(* register / identify / send, and the websocket pump (reader and writer   *)
(* goroutines) started by websocketInit.                                    *)
(*                                                                         *)
(* Every handler runs in its own goroutine.  The embedded sync.Mutex of    *)
(* Hub is never locked by any handler, so the handlers interleave at the   *)
(* granularity of their accesses to the shared map and to the channels;    *)
(* one action of the model is one such access together with the local     *)
(* computation around it.                                                  *)
(***************************************************************************)
EXTENDS Integers, Sequences, FiniteSets, TLC

(***************************************************************************)
(* Bounds of the model.                                                    *)
(***************************************************************************)
MaxReqs == 2
MaxConns == 2
MaxChans == 3
MaxPumps == 1
MaxRegs == 3
MaxSends == 1
MaxFrames == 1
MaxFails == 1
MaxLongRoutes == 1
MaxJoins == 1

(***************************************************************************)
(* Program constants.                                                      *)
(***************************************************************************)
maxAttempts == 5
MaxRecipientCount == 255

Reqs == 1..MaxReqs
Conns == 1..MaxConns
Chans == 1..MaxChans
NilChan == 0

(***************************************************************************)
(* Strings are sequences of one-character strings.                         *)
(***************************************************************************)
Digits == {"0", "1", "2", "3", "4", "5", "6", "7", "8", "9"}

DigitVal(c) ==
  CASE c = "0" -> 0 [] c = "1" -> 1 [] c = "2" -> 2 [] c = "3" -> 3
    [] c = "4" -> 4 [] c = "5" -> 5 [] c = "6" -> 6 [] c = "7" -> 7
    [] c = "8" -> 8 [] c = "9" -> 9

\* 2^64 - 1 in decimal, the largest value strconv.ParseUint(s, 10, 64) accepts
MaxUint64Digits ==
  <<"1","8","4","4","6","7","4","4","0","7","3","7","0","9","5","5","1","6","1","5">>

RECURSIVE StripZeros(_)
StripZeros(s) ==
  IF s # <<>> /\ Head(s) = "0" THEN StripZeros(Tail(s)) ELSE s

RECURSIVE DigitsGreater(_, _)
\* s and t are digit strings of equal length; s > t as numbers
DigitsGreater(s, t) ==
  IF s = <<>> THEN FALSE
  ELSE IF DigitVal(Head(s)) # DigitVal(Head(t))
       THEN DigitVal(Head(s)) > DigitVal(Head(t))
       ELSE DigitsGreater(Tail(s), Tail(t))

ExceedsUint64(s) ==
  LET t == StripZeros(s) IN
    \/ Len(t) > Len(MaxUint64Digits)
    \/ Len(t) = Len(MaxUint64Digits) /\ DigitsGreater(t, MaxUint64Digits)

RECURSIVE DecimalValue(_)
DecimalValue(s) ==
  IF s = <<>> THEN 0
  ELSE DecimalValue(SubSeq(s, 1, Len(s) - 1)) * 10 + DigitVal(s[Len(s)])

\* strconv.ParseUint(s, 10, 64): err is "" on success, else the reason
ParseUint(s) ==
  IF s = <<>> THEN [err |-> "invalid syntax", val |-> 0]
  ELSE IF \E i \in 1..Len(s) : s[i] \notin Digits
       THEN [err |-> "invalid syntax", val |-> 0]
  ELSE IF ExceedsUint64(s)
       THEN [err |-> "value out of range", val |-> 0]
  ELSE [err |-> "", val |-> DecimalValue(s)]

RECURSIVE Split(_)
\* strings.Split(s, ","): the pieces of s between the separators, in order;
\* n separators give n+1 tokens, Split("") is [""].  The string is cut at
\* its middle separator first, which keeps the recursion shallow on lists
\* of hundreds of entries; the pieces are the same as when cutting at each
\* separator from the left.
Split(s) ==
  LET commas == { i \in 1..Len(s) : s[i] = "," } IN
    IF commas = {} THEN <<s>>
    ELSE LET k == CHOOSE i \in commas :
                    Cardinality({ j \in commas : j < i }) = Cardinality(commas) \div 2
         IN Split(SubSeq(s, 1, k - 1)) \o Split(SubSeq(s, k + 1, Len(s)))

(***************************************************************************)
(* Inputs of the handlers, drawn from small sets.                          *)
(***************************************************************************)
\* values of the query parameter "id"; <<>> is the absent / empty parameter
IdQueries ==
  { <<>>, <<"1">>, <<"0", "1">>, <<"9", "0", "0", "1">>, <<"x">> }

\* the identities the model works with: what the id queries parse to
IDs == { ParseUint(q).val : q \in { t \in IdQueries : ParseUint(t).err = "" } }

\* the id query values of users calls: also one of an identity that no
\* register call names
ListQueries == IdQueries \cup { <<"7">> }

\* values of the query parameter "ids" and of the Recipients field of a frame
RecipientQueries ==
  { <<>>,
    <<"1">>,
    <<"1", ",", "9", "0", "0", "1">>,
    <<"1", ",", "1">>,
    <<"1", ",", "x">>,
    <<"x", ",", "1">>,
    <<"1", ",">> }

\* request bodies and the Data of a frame; NoBody is a request without body
NoBody == <<"nil">>
Bodies == { <<"a">> }
\* the body of a request that carries no bytes: the HTTP server hands the
\* handler a body that is not nil and reads as empty
EmptyBody == <<>>
FrameData == { <<"b">> }

\* a websocket frame: an envelope that decodes, or bytes that do not
Malformed == [ok |-> FALSE, Recipients |-> <<>>, Data |-> <<>>]
Frames ==
  { Malformed } \cup
  { [ok |-> TRUE, Recipients |-> r, Data |-> d] :
      r \in RecipientQueries, d \in FrameData }

\* frames that carry the same payloads as the POST /send requests do
EquivFrames ==
  { [ok |-> TRUE, Recipients |-> r, Data |-> d] :
      r \in RecipientQueries \ {<<>>}, d \in Bodies }

\* recipient lists in which every entry names an identity, and the frames
\* that carry them
NamedQueries ==
  { q \in RecipientQueries :
      \A i \in 1..Len(Split(q)) : ParseUint(Split(q)[i]).err = "" }

NamedFrames ==
  { [ok |-> TRUE, Recipients |-> r, Data |-> d] :
      r \in NamedQueries, d \in FrameData }

\* the decimal digits of n, as strconv / fmt write them
DigitChar(d) ==
  CASE d = 0 -> "0" [] d = 1 -> "1" [] d = 2 -> "2" [] d = 3 -> "3"
    [] d = 4 -> "4" [] d = 5 -> "5" [] d = 6 -> "6" [] d = 7 -> "7"
    [] d = 8 -> "8" [] d = 9 -> "9"

RECURSIVE DecimalString(_)
DecimalString(n) ==
  IF n < 10 THEN <<DigitChar(n)>>
  ELSE Append(DecimalString(n \div 10), DigitChar(n % 10))

RECURSIVE CountingRange(_, _)
\* the recipient list "lo,lo+1,...,hi"
CountingRange(lo, hi) ==
  IF lo = hi THEN DecimalString(lo)
  ELSE LET mid == (lo + hi) \div 2 IN
       CountingRange(lo, mid) \o <<",">> \o CountingRange(mid + 1, hi)

\* the recipient list "1,2,3,...,n"
CountingList(n) == CountingRange(1, n)

\* recipient lists at the limit: "1,2,...,255" has 255 entries, the same
\* list with a trailing comma has 256
LongQueries ==
  { CountingList(MaxRecipientCount),
    Append(CountingList(MaxRecipientCount), ",") }

LongFrames ==
  { [ok |-> TRUE, Recipients |-> r, Data |-> d] :
      r \in LongQueries, d \in FrameData }

(***************************************************************************)
(* State.                                                                  *)
(***************************************************************************)
VARIABLES
  Clients,   \* Hub.Clients: identity -> channel, NilChan when there is no entry
  req,       \* the HTTP handler running in each request slot
  conn,      \* the websocket connections with their reader and writer goroutine
             \* (bound: the channel the identity had when the pump was started)
  wire,      \* per connection, the frames the writer has written to the peer
  out,       \* what the last step emitted: an HTTP response or a log line
  quota,     \* what the environment may still do: register calls, handshakes,
             \* POST /send calls, envelope frames and connection failures left
  nacc,      \* number of channel sends completed so far
  crashed    \* the runtime has aborted the process (concurrent map access)

vars == <<Clients, req, conn, wire, out, quota, nacc, crashed>>

IdleReq ==
  [kind |-> "idle", pc |-> "idle", arg |-> <<>>, id |-> 0, attempts |-> 0,
   ids |-> <<>>, idx |-> 0, b |-> <<>>, ch |-> NilChan,
   payload |-> <<>>, sent |-> <<>>, keys |-> {}, seen |-> {}, users |-> {},
   insts |-> {}, closed |-> FALSE, chunks |-> <<>>]

FreeConn ==
  [st |-> "free", io |-> "ok", id |-> 0, bound |-> NilChan,
   rpc |-> "none", rids |-> <<>>, ridx |-> 0, rdata |-> <<>>, rch |-> NilChan,
   wpc |-> "none", wch |-> NilChan, wmsg |-> <<>>, wtag |-> 0]

\* nothing emitted
NoOut ==
  [kind |-> "none", arg |-> <<>>, code |-> 0, msg |-> "", body |-> 0,
   IDs |-> {}]

\* c.JSON(code, ...) of the handler of kind `kind` that was called with the
\* query arg; body is the identity written on success, msg the error message
Response(kind, arg, code, msg, body) ==
  [kind |-> kind, arg |-> arg, code |-> code, msg |-> msg, body |-> body,
   IDs |-> {}]

\* c.JSON(http.StatusOK, users) of listUsers: the field IDs of the
\* types.ListResponse, taken as a set
ListResponse(arg, ids) ==
  [kind |-> "users", arg |-> arg, code |-> 200, msg |-> "", body |-> 0,
   IDs |-> ids]

\* log.Printf of a pump goroutine
LogLine(msg) ==
  [kind |-> "log", arg |-> <<>>, code |-> 0, msg |-> msg, body |-> 0,
   IDs |-> {}]

\* Hub.New
Init ==
  /\ Clients = [i \in IDs |-> NilChan]
  /\ req = [p \in Reqs |-> IdleReq]
  /\ conn = [c \in Conns |-> FreeConn]
  /\ wire = [c \in Conns |-> <<>>]
  /\ out = NoOut
  /\ quota = [regs |-> MaxRegs, conns |-> MaxConns, sends |-> MaxSends,
              frames |-> MaxFrames, fails |-> MaxFails]
  /\ nacc = 0
  /\ crashed = FALSE

\* the map index expression h.Clients[id]: the zero value (nil) when absent
Lookup(id) == IF id \in IDs THEN Clients[id] ELSE NilChan

Registered == { i \in IDs : Clients[i] # NilChan }

\* the keys of a map value
Keys(m) == { i \in IDs : m[i] # NilChan }

\* the requests after the map has become m: every users call that is in its
\* range has one more key set of the map in its time
Observed(m) ==
  [p \in Reqs |->
     IF req[p].pc = "range"
     THEN [req[p] EXCEPT !.insts = req[p].insts \cup {Keys(m)}]
     ELSE req[p]]

\* channels that some map entry or some goroutine still refers to
UsedChans ==
  ( { Clients[i] : i \in IDs } \cup { req[p].ch : p \in Reqs }
    \cup { conn[c].rch : c \in Conns } \cup { conn[c].wch : c \in Conns }
    \cup { conn[c].bound : c \in Conns } )
  \ { NilChan }

\* make(chan []byte): a channel nothing refers to yet
FreshChan == CHOOSE c \in Chans \ UsedChans : \A d \in Chans \ UsedChans : c <= d

\* a new request is served by a new goroutine: the first free slot
CanStart(p) ==
  /\ ~crashed
  /\ req[p].pc = "idle"
  /\ \A x \in Reqs : req[x].pc = "idle" => p <= x

(***************************************************************************)
(* GET /register                                                           *)
(***************************************************************************)
\* a register that never finds the requested id taken
exists_Never(id) == FALSE

\* _, exists := h.Clients[newID]
exists(id) == Lookup(id) # NilChan

\* the request arrives; without id a first random candidate is drawn, with
\* an id it is parsed and looked up in the map
RegisterBegin(p, q) ==
  /\ CanStart(p)
  /\ quota.regs > 0
  /\ quota' = [quota EXCEPT !.regs = quota.regs - 1]
  /\ IF q = <<>>
     THEN /\ \E cand \in IDs :
               req' = [req EXCEPT ![p] =
                         [IdleReq EXCEPT !.kind = "register", !.arg = q,
                                         !.pc = "randcheck", !.id = cand]]
          /\ out' = NoOut
     ELSE LET r == ParseUint(q) IN
          IF r.err # ""
          THEN /\ out' = Response("register", q, 400, r.err, 0)
               /\ UNCHANGED req
          ELSE IF exists(r.val)
          THEN /\ out' = Response("register", q, 400, "ID already in use", 0)
               /\ UNCHANGED req
          ELSE /\ req' = [req EXCEPT ![p] =
                            [IdleReq EXCEPT !.kind = "register", !.arg = q,
                                            !.pc = "insert", !.id = r.val]]
               /\ out' = NoOut
  /\ UNCHANGED <<Clients, conn, wire, nacc, crashed>>

\* idInUse reports true when the id has NO entry in the map
idInUse(id) == Lookup(id) = NilChan

\* one evaluation of the loop condition !h.idInUse(newID) and, when the
\* candidate is taken, one run of the loop body
RegisterRandCheck(p) ==
  /\ ~crashed
  /\ req[p].pc = "randcheck"
  /\ IF ~idInUse(req[p].id)
     THEN IF req[p].attempts > maxAttempts
          THEN /\ req' = [req EXCEPT ![p] = IdleReq]
               /\ out' = Response("register", req[p].arg, 500,
                                  "Failed to find ID not in use", 0)
          ELSE /\ \E cand \in IDs :
                    req' = [req EXCEPT ![p].id = cand,
                                       ![p].attempts = req[p].attempts + 1]
               /\ out' = NoOut
     ELSE /\ req' = [req EXCEPT ![p].pc = "insert"]
          /\ out' = NoOut
  /\ UNCHANGED <<Clients, conn, wire, quota, nacc, crashed>>

\* h.Clients[newID] = make(chan []byte); c.JSON(http.StatusOK, newID)
RegisterInsert(p) ==
  /\ ~crashed
  /\ req[p].pc = "insert"
  /\ Chans \ UsedChans # {}
  /\ Clients' = [Clients EXCEPT ![req[p].id] = FreshChan]
  /\ req' = [Observed(Clients') EXCEPT ![p] = IdleReq]
  /\ out' = Response("register", req[p].arg, 200, "", req[p].id)
  /\ UNCHANGED <<conn, wire, quota, nacc, crashed>>

(***************************************************************************)
(* GET /users                                                              *)
(***************************************************************************)
\* a listUsers that goes on with the zero id when the id does not parse
listUsers_IgnoreErr(p, q) ==
  /\ CanStart(p)
  /\ IF q = <<>>
     THEN /\ out' = Response("users", q, 400, "IDs is required", 0)
          /\ UNCHANGED req
     ELSE /\ req' = [req EXCEPT ![p] =
                       [IdleReq EXCEPT !.kind = "users", !.arg = q,
                                       !.pc = "range",
                                       !.id = ParseUint(q).val,
                                       !.keys = Registered,
                                       !.insts = {Registered}]]
          /\ out' = NoOut
  /\ UNCHANGED <<Clients, conn, wire, quota, nacc, crashed>>

\* the request arrives: the id must be there and parse; then the range
\* over h.Clients begins.  keys holds the entries the iteration is bound to
\* produce: those that are in the map when it begins; insts collects the
\* key sets the map has had since the call began.
listUsers(p, q) ==
  /\ CanStart(p)
  /\ LET r == ParseUint(q) IN
     IF q = <<>>
     THEN /\ out' = Response("users", q, 400, "IDs is required", 0)
          /\ UNCHANGED req
     ELSE IF r.err # ""
     THEN /\ out' = Response("users", q, 400, r.err, 0)
          /\ UNCHANGED req
     ELSE /\ req' = [req EXCEPT ![p] =
                       [IdleReq EXCEPT !.kind = "users", !.arg = q,
                                       !.pc = "range", !.id = r.val,
                                       !.keys = Registered,
                                       !.insts = {Registered}]]
          /\ out' = NoOut
  /\ UNCHANGED <<Clients, conn, wire, quota, nacc, crashed>>

\* a loop body that appends every id
appendOthers_All(ids, userid, parsedID) == ids \cup {userid}

\* if userid != parsedID { users.IDs = append(users.IDs, userid) }
appendOthers(ids, userid, parsedID) ==
  IF userid # parsedID THEN ids \cup {userid} ELSE ids

\* one iteration of for userid := range h.Clients: the range produces an
\* entry that is in the map now and that it has not produced yet (an entry
\* removed before it is reached is not produced, one created during the
\* iteration may be), and the body appends it unless it is the caller's id
ListRange(p, userid) ==
  /\ ~crashed
  /\ req[p].pc = "range"
  /\ userid \in Registered \ req[p].seen
  /\ req' = [req EXCEPT ![p].seen = req[p].seen \cup {userid},
                        ![p].keys = req[p].keys \cap Registered,
                        ![p].users =
                           appendOthers(req[p].users, userid, req[p].id)]
  /\ out' = NoOut
  /\ UNCHANGED <<Clients, conn, wire, quota, nacc, crashed>>

\* the range is over, which it cannot be before it has produced the entries
\* it is bound to produce; c.JSON(http.StatusOK, users)
ListRespond(p) ==
  /\ ~crashed
  /\ req[p].pc = "range"
  /\ (req[p].keys \cap Registered) \subseteq req[p].seen
  /\ req' = [req EXCEPT ![p] = IdleReq]
  /\ out' = ListResponse(req[p].arg, req[p].users)
  /\ UNCHANGED <<Clients, conn, wire, quota, nacc, crashed>>

(***************************************************************************)
(* GET /identify                                                           *)
(***************************************************************************)
\* an identify that echoes the id without looking it up
selfIdentify_NoLookup(p, q) ==
  /\ CanStart(p)
  /\ LET r == ParseUint(q) IN
     out' = IF q = <<>> THEN Response("identify", q, 400, "ID is required", 0)
            ELSE IF r.err # "" THEN Response("identify", q, 400, r.err, 0)
            ELSE Response("identify", q, 200, "", r.val)
  /\ UNCHANGED <<Clients, req, conn, wire, quota, nacc, crashed>>

\* the id must be there, parse and have an entry with a channel; then it
\* is echoed
selfIdentify(p, q) ==
  /\ CanStart(p)
  /\ LET r == ParseUint(q) IN
     out' = IF q = <<>> THEN Response("identify", q, 400, "ID is required", 0)
            ELSE IF r.err # "" THEN Response("identify", q, 400, r.err, 0)
            ELSE IF Lookup(r.val) = NilChan
                 THEN Response("identify", q, 400, "ID not registered", 0)
            ELSE Response("identify", q, 200, "", r.val)
  /\ UNCHANGED <<Clients, req, conn, wire, quota, nacc, crashed>>

(***************************************************************************)
(* POST /send                                                              *)
(***************************************************************************)
\* the checks before the loop: ids present, body present, at most 255 ids
SendBegin(p, q, body) ==
  /\ CanStart(p)
  /\ quota.sends > 0
  /\ IF q = <<>>
     THEN /\ out' = Response("send", q, 400, "IDs are required (csv)", 0)
          /\ UNCHANGED <<req, quota>>
     ELSE IF body = NoBody
     THEN /\ out' = Response("send", q, 400,
                             "Body expected for a sendmessage call", 0)
          /\ UNCHANGED <<req, quota>>
     ELSE IF Len(Split(q)) > MaxRecipientCount
     THEN /\ out' = Response("send", q, 400,
                      "Maximum number of clients to send messages is 255", 0)
          /\ UNCHANGED <<req, quota>>
     ELSE /\ req' = [req EXCEPT ![p] =
                       [IdleReq EXCEPT !.kind = "send", !.arg = q,
                                       !.pc = "loop",
                                       !.ids = Split(q), !.idx = 1,
                                       !.b = body, !.payload = body]]
          /\ quota' = [quota EXCEPT !.sends = quota.sends - 1]
          /\ out' = NoOut
  /\ UNCHANGED <<Clients, conn, wire, nacc, crashed>>

\* a loop that passes over a recipient it has sent to already
SendLookup_Dedup(p) ==
  /\ ~crashed
  /\ req[p].pc = "loop"
  /\ LET r == ParseUint(req[p].ids[req[p].idx]) IN
     IF r.err # ""
     THEN /\ req' = [req EXCEPT ![p] = IdleReq]
          /\ out' = Response("send", req[p].arg, 400, r.err, 0)
     ELSE IF Lookup(r.val) = NilChan
     THEN /\ req' = [req EXCEPT ![p] = IdleReq]
          /\ out' = Response("send", req[p].arg, 400, "ID not registered", 0)
     ELSE IF \E j \in 1..Len(req[p].sent) : req[p].sent[j][1] = r.val
     THEN IF req[p].idx = Len(req[p].ids)
          THEN /\ req' = [req EXCEPT ![p] = IdleReq]
               /\ out' = Response("send", req[p].arg, 200, "", 0)
          ELSE /\ req' = [req EXCEPT ![p].idx = req[p].idx + 1]
               /\ out' = NoOut
     ELSE /\ req' = [req EXCEPT ![p].pc = "push", ![p].id = r.val,
                                ![p].ch = Lookup(r.val),
                                ![p].b = Append(req[p].b, "\n")]
          /\ out' = NoOut
  /\ UNCHANGED <<Clients, conn, wire, quota, nacc, crashed>>

\* a loop that appends the newline before its first send only
SendLookup_AppendOnce(p) ==
  /\ ~crashed
  /\ req[p].pc = "loop"
  /\ LET r == ParseUint(req[p].ids[req[p].idx]) IN
     IF r.err # ""
     THEN /\ req' = [req EXCEPT ![p] = IdleReq]
          /\ out' = Response("send", req[p].arg, 400, r.err, 0)
     ELSE IF Lookup(r.val) = NilChan
     THEN /\ req' = [req EXCEPT ![p] = IdleReq]
          /\ out' = Response("send", req[p].arg, 400, "ID not registered", 0)
     ELSE /\ req' = [req EXCEPT ![p].pc = "push", ![p].id = r.val,
                                ![p].ch = Lookup(r.val),
                                ![p].b = IF req[p].idx = 1
                                         THEN Append(req[p].b, "\n")
                                         ELSE req[p].b]
          /\ out' = NoOut
  /\ UNCHANGED <<Clients, conn, wire, quota, nacc, crashed>>

\* one iteration up to the channel send: parse the id, look the channel up,
\* append the newline
SendLookup(p) ==
  /\ ~crashed
  /\ req[p].pc = "loop"
  /\ LET r == ParseUint(req[p].ids[req[p].idx]) IN
     IF r.err # ""
     THEN /\ req' = [req EXCEPT ![p] = IdleReq]
          /\ out' = Response("send", req[p].arg, 400, r.err, 0)
     ELSE IF Lookup(r.val) = NilChan
     THEN /\ req' = [req EXCEPT ![p] = IdleReq]
          /\ out' = Response("send", req[p].arg, 400, "ID not registered", 0)
     ELSE /\ req' = [req EXCEPT ![p].pc = "push", ![p].id = r.val,
                                ![p].ch = Lookup(r.val),
                                ![p].b = Append(req[p].b, "\n")]
          /\ out' = NoOut
  /\ UNCHANGED <<Clients, conn, wire, quota, nacc, crashed>>

\* ch <- b on the unbuffered channel: completes together with the receive
\* of a writer goroutine waiting on the same channel; after the last
\* recipient the handler returns, which answers 200
\* a send on a channel that has room for the payload: it completes with
\* no receiver there
SendPush_Buffered(p, w) ==
  /\ ~crashed
  /\ req[p].pc = "push"
  /\ w = 1
  /\ IF req[p].idx = Len(req[p].ids)
     THEN /\ req' = [req EXCEPT ![p] = IdleReq]
          /\ out' = Response("send", req[p].arg, 200, "", 0)
     ELSE /\ req' = [req EXCEPT ![p].pc = "loop", ![p].idx = req[p].idx + 1,
                                ![p].ch = NilChan,
                                ![p].sent = Append(req[p].sent,
                                                   <<req[p].id, req[p].b>>)]
          /\ out' = NoOut
  /\ UNCHANGED <<Clients, conn, wire, quota, nacc, crashed>>

SendPush(p, w) ==
  /\ ~crashed
  /\ req[p].pc = "push"
  /\ conn[w].wpc = "recv"
  /\ conn[w].wch = req[p].ch
  /\ nacc' = nacc + 1
  /\ conn' = [conn EXCEPT ![w].wpc = "write", ![w].wmsg = req[p].b,
                          ![w].wtag = nacc + 1]
  /\ IF req[p].idx = Len(req[p].ids)
     THEN /\ req' = [req EXCEPT ![p] = IdleReq]
          /\ out' = Response("send", req[p].arg, 200, "", 0)
     ELSE /\ req' = [req EXCEPT ![p].pc = "loop", ![p].idx = req[p].idx + 1,
                                ![p].ch = NilChan,
                                ![p].sent = Append(req[p].sent,
                                                   <<req[p].id, req[p].b>>)]
          /\ out' = NoOut
  /\ UNCHANGED <<Clients, wire, quota, crashed>>

(***************************************************************************)
(* GET /stream, the long-lived request of the hub that has this route;     *)
(* its POST /send runs the same loop over the recipients.                  *)
(***************************************************************************)
\* the request arrives: the id must be there, parse and be registered;
\* then c.Stream calls the step function, again for as long as it answers
\* true
stream(p, q) ==
  /\ CanStart(p)
  /\ LET r == ParseUint(q) IN
     IF q = <<>>
     THEN /\ out' = Response("stream", q, 400, "ID is required", 0)
          /\ UNCHANGED req
     ELSE IF r.err # ""
     THEN /\ out' = Response("stream", q, 400, r.err, 0)
          /\ UNCHANGED req
     ELSE IF Lookup(r.val) = NilChan
     THEN /\ out' = Response("stream", q, 400, "ID not registered", 0)
          /\ UNCHANGED req
     ELSE /\ req' = [req EXCEPT ![p] =
                       [IdleReq EXCEPT !.kind = "stream", !.arg = q,
                                       !.pc = "step", !.id = r.val]]
          /\ out' = NoOut
  /\ UNCHANGED <<Clients, conn, wire, quota, nacc, crashed>>

\* the step function enters its select: h.Clients[parsedID] is read and the
\* request waits on that channel (a nil one never yields) and on closed
StreamSelect(s) ==
  /\ ~crashed
  /\ req[s].pc = "step"
  /\ req' = [req EXCEPT ![s].pc = "recv", ![s].ch = Lookup(req[s].id)]
  /\ out' = NoOut
  /\ UNCHANGED <<Clients, conn, wire, quota, nacc, crashed>>

\* the caller goes away: closed becomes ready
StreamDisconnect(s) ==
  /\ ~crashed
  /\ req[s].kind = "stream"
  /\ ~req[s].closed
  /\ req' = [req EXCEPT ![s].closed = TRUE]
  /\ out' = NoOut
  /\ UNCHANGED <<Clients, conn, wire, quota, nacc, crashed>>

\* case <-closed: return false; the request ends
StreamClosed(s) ==
  /\ ~crashed
  /\ req[s].pc = "recv"
  /\ req[s].closed
  /\ req' = [req EXCEPT ![s] = IdleReq]
  /\ out' = NoOut
  /\ UNCHANGED <<Clients, conn, wire, quota, nacc, crashed>>

\* case msg := <-h.Clients[parsedID]: the send of the POST /send request p
\* on this channel and the receive happen together; c.JSON(200, msg)
\* writes the chunk and the step answers true, so that the step function
\* is called again.  Which case a select takes when both are ready is not
\* determined.
StreamDeliver(s, p) ==
  /\ ~crashed
  /\ req[s].pc = "recv"
  /\ req[p].pc = "push"
  /\ req[s].ch # NilChan
  /\ req[s].ch = req[p].ch
  /\ nacc' = nacc + 1
  /\ req' = [req EXCEPT
               ![s].pc = "step", ![s].ch = NilChan,
               ![s].chunks = Append(req[s].chunks, req[p].b),
               ![p] = IF req[p].idx = Len(req[p].ids)
                      THEN IdleReq
                      ELSE [req[p] EXCEPT !.pc = "loop",
                                          !.idx = req[p].idx + 1,
                                          !.ch = NilChan,
                                          !.sent = Append(req[p].sent,
                                                     <<req[p].id, req[p].b>>)]]
  /\ out' = Response("stream", req[s].arg, 200, "", 0)
  /\ UNCHANGED <<Clients, conn, wire, quota, crashed>>

(***************************************************************************)
(* GET /ws                                                                 *)
(***************************************************************************)
FreeConns == { c \in Conns : conn[c].st = "free" }

\* a handshake that takes every id for registered
connectedIDExists_Always(id) == TRUE

\* ch, exists := h.Clients[connectedID]; exists && ch != nil
connectedIDExists(id) == Lookup(id) # NilChan

\* a handshake that removes the entry of the id when Upgrade fails
websocketInit_EvictOnFail(p, q, upgraded) ==
  /\ CanStart(p)
  /\ LET r == ParseUint(q) IN
     IF q = <<>>
     THEN /\ out' = Response("ws", q, 400, "ID is required", 0)
          /\ UNCHANGED <<Clients, conn, quota>>
     ELSE IF r.err # ""
     THEN /\ out' = Response("ws", q, 400, r.err, 0)
          /\ UNCHANGED <<Clients, conn, quota>>
     ELSE IF ~connectedIDExists(r.val)
     THEN /\ out' = Response("ws", q, 400, "ID not registered", 0)
          /\ UNCHANGED <<Clients, conn, quota>>
     ELSE IF ~upgraded
     THEN /\ out' = Response("ws", q, 400, "upgrade failed", 0)
          /\ Clients' = [Clients EXCEPT ![r.val] = NilChan]
          /\ UNCHANGED <<conn, quota>>
     ELSE /\ FreeConns # {}
          /\ quota.conns > 0
          /\ quota' = [quota EXCEPT !.conns = quota.conns - 1]
          /\ LET c == CHOOSE x \in FreeConns : \A y \in FreeConns : x <= y IN
             conn' = [conn EXCEPT ![c] =
                        [FreeConn EXCEPT !.st = "open", !.id = r.val,
                                         !.bound = Lookup(r.val),
                                         !.rpc = "read", !.wpc = "select"]]
          /\ out' = Response("ws", q, 101, "", r.val)
          /\ UNCHANGED Clients
  /\ UNCHANGED <<req, wire, nacc, crashed>>

\* the handshake: the id checks, then upgrader.Upgrade, then the two go
\* statements.  upgraded = FALSE is Upgrade returning an error (it has
\* already answered the request itself).
websocketInit(p, q, upgraded) ==
  /\ CanStart(p)
  /\ LET r == ParseUint(q) IN
     IF q = <<>>
     THEN /\ out' = Response("ws", q, 400, "ID is required", 0)
          /\ UNCHANGED <<conn, quota>>
     ELSE IF r.err # ""
     THEN /\ out' = Response("ws", q, 400, r.err, 0)
          /\ UNCHANGED <<conn, quota>>
     ELSE IF ~connectedIDExists(r.val)
     THEN /\ out' = Response("ws", q, 400, "ID not registered", 0)
          /\ UNCHANGED <<conn, quota>>
     ELSE IF ~upgraded
     THEN /\ out' = Response("ws", q, 400, "upgrade failed", 0)
          /\ UNCHANGED <<conn, quota>>
     ELSE /\ FreeConns # {}
          /\ quota.conns > 0
          /\ quota' = [quota EXCEPT !.conns = quota.conns - 1]
          /\ LET c == CHOOSE x \in FreeConns : \A y \in FreeConns : x <= y IN
             conn' = [conn EXCEPT ![c] =
                        [FreeConn EXCEPT !.st = "open", !.id = r.val,
                                         !.bound = Lookup(r.val),
                                         !.rpc = "read", !.wpc = "select"]]
          /\ out' = Response("ws", q, 101, "", r.val)
  /\ UNCHANGED <<Clients, req, wire, nacc, crashed>>

\* the peer goes away or the transport breaks: from now on every read and
\* every write on the connection returns an error
ConnFail(c) ==
  /\ ~crashed
  /\ conn[c].st # "free"
  /\ conn[c].io = "ok"
  /\ quota.fails > 0
  /\ quota' = [quota EXCEPT !.fails = quota.fails - 1]
  /\ conn' = [conn EXCEPT ![c].io = "broken"]
  /\ out' = NoOut
  /\ UNCHANGED <<Clients, req, wire, nacc, crashed>>

\* reads and writes work on a connection that is neither broken nor closed
Usable(c) == conn[c].st = "open" /\ conn[c].io = "ok"

(***************************************************************************)
(* The reader goroutine of a connection                                    *)
(***************************************************************************)
\* a reader for which a frame that does not decode is fatal
ReaderFrame_FatalDecode(c, f) ==
  /\ ~crashed
  /\ conn[c].rpc = "read"
  /\ Usable(c)
  /\ quota.frames > 0
  /\ IF ~f.ok
     THEN /\ out' = LogLine("Unable unmarshal message")
          /\ conn' = [conn EXCEPT ![c].st = "closed", ![c].rpc = "delete"]
          /\ UNCHANGED quota
     ELSE /\ conn' = [conn EXCEPT ![c].rpc = "loop",
                                  ![c].rids = Split(f.Recipients),
                                  ![c].ridx = 1, ![c].rdata = f.Data]
          /\ quota' = [quota EXCEPT !.frames = quota.frames - 1]
          /\ out' = NoOut
  /\ UNCHANGED <<Clients, req, wire, nacc, crashed>>

\* conn.ReadMessage returns a frame; json.Unmarshal; strings.Split
ReaderFrame(c, f) ==
  /\ ~crashed
  /\ conn[c].rpc = "read"
  /\ Usable(c)
  /\ quota.frames > 0
  /\ IF ~f.ok
     THEN /\ out' = LogLine("Unable unmarshal message")
          /\ UNCHANGED <<conn, quota>>
     ELSE /\ conn' = [conn EXCEPT ![c].rpc = "loop",
                                  ![c].rids = Split(f.Recipients),
                                  ![c].ridx = 1, ![c].rdata = f.Data]
          /\ quota' = [quota EXCEPT !.frames = quota.frames - 1]
          /\ out' = NoOut
  /\ UNCHANGED <<Clients, req, wire, nacc, crashed>>

\* the reader of c goes on to the next recipient, or to the next frame
ReaderAdvance(c) ==
  IF conn[c].ridx = Len(conn[c].rids)
  THEN [conn[c] EXCEPT !.rpc = "read", !.rids = <<>>, !.ridx = 0,
                       !.rdata = <<>>, !.rch = NilChan]
  ELSE [conn[c] EXCEPT !.rpc = "loop", !.ridx = conn[c].ridx + 1,
                       !.rch = NilChan]

\* one iteration up to the channel send: parse the id (continue on error),
\* evaluate h.Clients[parsedID]
ReaderLookup(c) ==
  /\ ~crashed
  /\ conn[c].rpc = "loop"
  /\ LET r == ParseUint(conn[c].rids[conn[c].ridx]) IN
     IF r.err # ""
     THEN /\ conn' = [conn EXCEPT ![c] = ReaderAdvance(c)]
          /\ out' = LogLine("Unable to parse recipient")
     ELSE /\ conn' = [conn EXCEPT ![c].rpc = "push", ![c].rch = Lookup(r.val)]
          /\ out' = NoOut
  /\ UNCHANGED <<Clients, req, wire, quota, nacc, crashed>>

\* a reader that leaves its send when the connection reads no more
ReaderReadErr_Interrupt(c) ==
  /\ ~crashed
  /\ conn[c].rpc \in {"read", "push"}
  /\ ~Usable(c)
  /\ conn' = [conn EXCEPT ![c].st = "closed", ![c].rpc = "delete"]
  /\ out' = LogLine("Error reading message")
  /\ UNCHANGED <<Clients, req, wire, quota, nacc, crashed>>

\* h.Clients[parsedID] <- incomingMessage.Data, completing with the receive
\* of writer w; a send on the nil channel never completes
ReaderPush(c, w) ==
  /\ ~crashed
  /\ conn[c].rpc = "push"
  /\ conn[c].rch # NilChan
  /\ conn[w].wpc = "recv"
  /\ conn[w].wch = conn[c].rch
  /\ nacc' = nacc + 1
  /\ conn' = [x \in Conns |->
       LET afterSend == IF x = c THEN ReaderAdvance(c) ELSE conn[x] IN
       IF x = w
       THEN [afterSend EXCEPT !.wpc = "write", !.wmsg = conn[c].rdata,
                              !.wtag = nacc + 1]
       ELSE afterSend]
  /\ out' = NoOut
  /\ UNCHANGED <<Clients, req, wire, quota, crashed>>

\* conn.ReadMessage returns an error; log; conn.Close()
ReaderReadErr(c) ==
  /\ ~crashed
  /\ conn[c].rpc = "read"
  /\ ~Usable(c)
  /\ conn' = [conn EXCEPT ![c].st = "closed", ![c].rpc = "delete"]
  /\ out' = LogLine("Error reading message")
  /\ UNCHANGED <<Clients, req, wire, quota, nacc, crashed>>

\* delete(h.Clients, connectedID); break leaves the for loop
ReaderDelete(c) ==
  /\ ~crashed
  /\ conn[c].rpc = "delete"
  /\ Clients' = [Clients EXCEPT ![conn[c].id] = NilChan]
  /\ conn' = [conn EXCEPT ![c].rpc = "exit"]
  /\ req' = Observed(Clients')
  /\ out' = NoOut
  /\ UNCHANGED <<wire, quota, nacc, crashed>>

(***************************************************************************)
(* The writer goroutine of a connection                                    *)
(***************************************************************************)
\* entering the select: the channel expression h.Clients[connectedID] is
\* evaluated once, then the goroutine waits on that channel
WriterSelect(c) ==
  /\ ~crashed
  /\ conn[c].wpc = "select"
  /\ conn' = [conn EXCEPT ![c].wpc = "recv", ![c].wch = Lookup(conn[c].id)]
  /\ out' = NoOut
  /\ UNCHANGED <<Clients, req, wire, quota, nacc, crashed>>

\* a writer that takes the message and goes back to the select without
\* writing it to the connection
WriterWrite_Drop(c) ==
  /\ ~crashed
  /\ conn[c].wpc = "write"
  /\ IF Usable(c)
     THEN /\ conn' = [conn EXCEPT ![c].wpc = "select", ![c].wch = NilChan,
                                  ![c].wmsg = <<>>, ![c].wtag = 0]
          /\ out' = NoOut
     ELSE /\ conn' = [conn EXCEPT ![c].st = "closed", ![c].wpc = "delete",
                                  ![c].wch = NilChan,
                                  ![c].wmsg = <<>>, ![c].wtag = 0]
          /\ out' = LogLine("Error writing message")
  /\ UNCHANGED <<Clients, req, wire, quota, nacc, crashed>>

\* a writer that does not go back to the select after a successful write
\* and so writes the message it holds again
WriterWrite_Resend(c) ==
  /\ ~crashed
  /\ conn[c].wpc = "write"
  /\ IF Usable(c)
     THEN /\ wire' = [wire EXCEPT ![c] =
                        Append(wire[c], <<conn[c].wtag, conn[c].wmsg>>)]
          /\ Len(wire[c]) < 2
          /\ UNCHANGED conn
          /\ out' = LogLine("written")
     ELSE /\ conn' = [conn EXCEPT ![c].st = "closed", ![c].wpc = "delete",
                                  ![c].wch = NilChan,
                                  ![c].wmsg = <<>>, ![c].wtag = 0]
          /\ out' = LogLine("Error writing message")
          /\ UNCHANGED wire
  /\ UNCHANGED <<Clients, req, quota, nacc, crashed>>

\* a writer that keeps the payload of a failed write
WriterWrite_KeepOnFail(c) ==
  /\ ~crashed
  /\ conn[c].wpc = "write"
  /\ IF Usable(c)
     THEN /\ wire' = [wire EXCEPT ![c] =
                        Append(wire[c], <<conn[c].wtag, conn[c].wmsg>>)]
          /\ conn' = [conn EXCEPT ![c].wpc = "select", ![c].wch = NilChan,
                                  ![c].wmsg = <<>>, ![c].wtag = 0]
          /\ out' = NoOut
     ELSE /\ conn' = [conn EXCEPT ![c].st = "closed", ![c].wpc = "delete",
                                  ![c].wch = NilChan]
          /\ out' = LogLine("Error writing message")
          /\ UNCHANGED wire
  /\ UNCHANGED <<Clients, req, quota, nacc, crashed>>

\* a writer that returns after its first write
WriterWrite_Once(c) ==
  /\ ~crashed
  /\ conn[c].wpc = "write"
  /\ IF Usable(c)
     THEN /\ wire' = [wire EXCEPT ![c] =
                        Append(wire[c], <<conn[c].wtag, conn[c].wmsg>>)]
          /\ conn' = [conn EXCEPT ![c].wpc = "exit", ![c].wch = NilChan,
                                  ![c].wmsg = <<>>, ![c].wtag = 0]
          /\ out' = NoOut
     ELSE /\ conn' = [conn EXCEPT ![c].st = "closed", ![c].wpc = "delete",
                                  ![c].wch = NilChan,
                                  ![c].wmsg = <<>>, ![c].wtag = 0]
          /\ out' = LogLine("Error writing message")
          /\ UNCHANGED wire
  /\ UNCHANGED <<Clients, req, quota, nacc, crashed>>

\* conn.WriteMessage(1, msg); on error log and conn.Close()
WriterWrite(c) ==
  /\ ~crashed
  /\ conn[c].wpc = "write"
  /\ IF Usable(c)
     THEN /\ wire' = [wire EXCEPT ![c] =
                        Append(wire[c], <<conn[c].wtag, conn[c].wmsg>>)]
          /\ conn' = [conn EXCEPT ![c].wpc = "select", ![c].wch = NilChan,
                                  ![c].wmsg = <<>>, ![c].wtag = 0]
          /\ out' = NoOut
     ELSE /\ conn' = [conn EXCEPT ![c].st = "closed", ![c].wpc = "delete",
                                  ![c].wch = NilChan,
                                  ![c].wmsg = <<>>, ![c].wtag = 0]
          /\ out' = LogLine("Error writing message")
          /\ UNCHANGED wire
  /\ UNCHANGED <<Clients, req, quota, nacc, crashed>>

\* delete(h.Clients, connectedID); break leaves the select only, so the
\* for loop goes round again
WriterDelete(c) ==
  /\ ~crashed
  /\ conn[c].wpc = "delete"
  /\ Clients' = [Clients EXCEPT ![conn[c].id] = NilChan]
  /\ conn' = [conn EXCEPT ![c].wpc = "select"]
  /\ req' = Observed(Clients')
  /\ out' = NoOut
  /\ UNCHANGED <<wire, quota, nacc, crashed>>

(***************************************************************************)
(* Unsynchronised access to the map                                        *)
(***************************************************************************)
\* goroutines whose next step writes h.Clients
MapWriters ==
  { <<"req", p>> : p \in { x \in Reqs : req[x].pc = "insert" } }
  \cup { <<"reader", c>> : c \in { x \in Conns : conn[x].rpc = "delete" } }
  \cup { <<"writer", c>> : c \in { x \in Conns : conn[x].wpc = "delete" } }

\* goroutines whose next step reads h.Clients
MapReaders ==
  { <<"req", p>> : p \in { x \in Reqs :
       \/ req[x].pc = "randcheck"
       \/ req[x].pc = "range"
       \/ req[x].pc = "step"
       \/ req[x].pc = "loop" /\ ParseUint(req[x].ids[req[x].idx]).err = "" } }
  \cup { <<"reader", c>> : c \in { x \in Conns :
       conn[x].rpc = "loop" /\ ParseUint(conn[x].rids[conn[x].ridx]).err = "" } }
  \cup { <<"writer", c>> : c \in { x \in Conns : conn[x].wpc = "select" } }

\* No handler locks the Hub's mutex.  When a map write of one goroutine
\* overlaps a map access of another the Go runtime may detect it and abort
\* the process ("fatal error: concurrent map writes" / "concurrent map read
\* and map write"); otherwise the accesses take effect in some order.
Fatal ==
  /\ ~crashed
  /\ \E u \in MapWriters : \E v \in MapWriters \cup MapReaders : u # v
  /\ crashed' = TRUE
  /\ out' = [NoOut EXCEPT !.kind = "fatal"]
  /\ UNCHANGED <<Clients, req, conn, wire, quota, nacc>>

(***************************************************************************)
(* Specifications                                                          *)
(***************************************************************************)
\* The whole hub, from Hub.New.
Next ==
  \/ \E p \in Reqs, q \in IdQueries : RegisterBegin(p, q)
  \/ \E p \in Reqs : RegisterRandCheck(p)
  \/ \E p \in Reqs : RegisterInsert(p)
  \/ \E p \in Reqs, q \in IdQueries : listUsers(p, q)
  \/ \E p \in Reqs, userid \in IDs : ListRange(p, userid)
  \/ \E p \in Reqs : ListRespond(p)
  \/ \E p \in Reqs, q \in IdQueries : selfIdentify(p, q)
  \/ \E p \in Reqs, q \in RecipientQueries, body \in Bodies \cup {NoBody} :
       SendBegin(p, q, body)
  \/ \E p \in Reqs : SendLookup(p)
  \/ \E p \in Reqs, w \in Conns : SendPush(p, w)
  \/ \E p \in Reqs, q \in IdQueries, up \in BOOLEAN : websocketInit(p, q, up)
  \/ \E c \in Conns : ConnFail(c)
  \/ \E c \in Conns, f \in Frames : ReaderFrame(c, f)
  \/ \E c \in Conns : ReaderLookup(c)
  \/ \E c \in Conns, w \in Conns : ReaderPush(c, w)
  \/ \E c \in Conns : ReaderReadErr(c)
  \/ \E c \in Conns : ReaderDelete(c)
  \/ \E c \in Conns : WriterSelect(c)
  \/ \E c \in Conns : WriterWrite(c)
  \/ \E c \in Conns : WriterDelete(c)
  \/ Fatal

Spec == Init /\ [][Next]_vars

\* The registry and the identity allocator: register and identify calls from
\* Hub.New on, with pumps whose connection may fail (which removes entries);
\* nobody submits an envelope.
InitRegistry ==
  /\ Clients = [i \in IDs |-> NilChan]
  /\ req = [p \in Reqs |-> IdleReq]
  /\ conn = [c \in Conns |-> FreeConn]
  /\ wire = [c \in Conns |-> <<>>]
  /\ out = NoOut
  /\ quota = [regs |-> MaxRegs, conns |-> MaxPumps, sends |-> 0,
              frames |-> 0, fails |-> MaxFails]
  /\ nacc = 0
  /\ crashed = FALSE

NextRegistry ==
  \/ \E p \in Reqs, q \in IdQueries : RegisterBegin(p, q)
  \/ \E p \in Reqs : RegisterRandCheck(p)
  \/ \E p \in Reqs : RegisterInsert(p)
  \/ \E p \in Reqs, q \in IdQueries : selfIdentify(p, q)
  \/ \E p \in Reqs, q \in IdQueries, up \in BOOLEAN : websocketInit(p, q, up)
  \/ \E c \in Conns : ConnFail(c)
  \/ \E c \in Conns : ReaderReadErr(c)
  \/ \E c \in Conns : ReaderDelete(c)
  \/ \E c \in Conns : WriterSelect(c)
  \/ Fatal

SpecRegistry == InitRegistry /\ [][NextRegistry]_vars

\* a pump as websocketInit starts it for identity id, its writer waiting on
\* the channel of id
PumpFor(id) ==
  [FreeConn EXCEPT !.st = "open", !.id = id, !.bound = Clients[id],
                   !.rpc = "read", !.wpc = "recv", !.wch = Clients[id]]

\* The router on a hub that is in use: identity 1 is registered and has a
\* pump; identity 9001 is unregistered, or registered without a pump.
\* Envelopes arrive by POST /send and as frames, the connection may fail.
InitRoute ==
  /\ \E c \in {NilChan, 2} : Clients = [i \in IDs |-> IF i = 1 THEN 1 ELSE c]
  /\ req = [p \in Reqs |-> IdleReq]
  /\ conn = [c \in Conns |-> IF c = 1 THEN PumpFor(1) ELSE FreeConn]
  /\ wire = [c \in Conns |-> <<>>]
  /\ out = NoOut
  /\ quota = [regs |-> 0, conns |-> 0, sends |-> MaxSends,
              frames |-> MaxFrames, fails |-> MaxFails]
  /\ nacc = 0
  /\ crashed = FALSE

NextRoute ==
  \/ \E p \in Reqs, q \in RecipientQueries, body \in Bodies \cup {NoBody} :
       SendBegin(p, q, body)
  \/ \E p \in Reqs : SendLookup(p)
  \/ \E p \in Reqs, w \in Conns : SendPush(p, w)
  \/ \E c \in Conns : ConnFail(c)
  \/ \E c \in Conns, f \in Frames : ReaderFrame(c, f)
  \/ \E c \in Conns : ReaderLookup(c)
  \/ \E c \in Conns, w \in Conns : ReaderPush(c, w)
  \/ \E c \in Conns : ReaderReadErr(c)
  \/ \E c \in Conns : ReaderDelete(c)
  \/ \E c \in Conns : WriterSelect(c)
  \/ \E c \in Conns : WriterWrite(c)
  \/ \E c \in Conns : WriterDelete(c)
  \/ Fatal

SpecRoute == InitRoute /\ [][NextRoute]_vars

\* Fan-out: both identities are registered and each has a pump (connection 1
\* for identity 1, connection 2 for the other); envelopes arrive by
\* POST /send, connections may fail.
InitFanout ==
  /\ Clients = [i \in IDs |-> IF i = 1 THEN 1 ELSE 2]
  /\ req = [p \in Reqs |-> IdleReq]
  /\ conn = [c \in Conns |->
               IF c = 1 THEN PumpFor(1)
               ELSE IF c = 2 THEN PumpFor(CHOOSE i \in IDs : i # 1)
               ELSE FreeConn]
  /\ wire = [c \in Conns |-> <<>>]
  /\ out = NoOut
  /\ quota = [regs |-> 0, conns |-> 0, sends |-> MaxSends, frames |-> 0,
              fails |-> MaxFails]
  /\ nacc = 0
  /\ crashed = FALSE

NextFanout ==
  \/ \E p \in Reqs, q \in RecipientQueries, body \in Bodies \cup {NoBody} :
       SendBegin(p, q, body)
  \/ \E p \in Reqs : SendLookup(p)
  \/ \E p \in Reqs, w \in Conns : SendPush(p, w)
  \/ \E c \in Conns : ConnFail(c)
  \/ \E c \in Conns : ReaderReadErr(c)
  \/ \E c \in Conns : ReaderDelete(c)
  \/ \E c \in Conns : WriterSelect(c)
  \/ \E c \in Conns : WriterWrite(c)
  \/ \E c \in Conns : WriterDelete(c)
  \/ Fatal

SpecFanout == InitFanout /\ [][NextFanout]_vars

\* The recipient limit: identity 1 is registered and has a pump, and the
\* recipient lists that arrive (by POST /send and as frames) have 255 or
\* 256 entries.
InitLimit ==
  /\ Clients = [i \in IDs |-> IF i = 1 THEN 1 ELSE NilChan]
  /\ req = [p \in Reqs |-> IdleReq]
  /\ conn = [c \in Conns |-> IF c = 1 THEN PumpFor(1) ELSE FreeConn]
  /\ wire = [c \in Conns |-> <<>>]
  /\ out = NoOut
  /\ quota = [regs |-> 0, conns |-> 0, sends |-> MaxLongRoutes,
              frames |-> MaxLongRoutes, fails |-> 0]
  /\ nacc = 0
  /\ crashed = FALSE

NextLimit ==
  \/ \E p \in Reqs, q \in LongQueries, body \in Bodies : SendBegin(p, q, body)
  \/ \E p \in Reqs : SendLookup(p)
  \/ \E p \in Reqs, w \in Conns : SendPush(p, w)
  \/ \E c \in Conns, f \in LongFrames : ReaderFrame(c, f)
  \/ \E c \in Conns : ReaderLookup(c)
  \/ \E c \in Conns, w \in Conns : ReaderPush(c, w)
  \/ \E c \in Conns : WriterSelect(c)
  \/ \E c \in Conns : WriterWrite(c)

SpecLimit == InitLimit /\ [][NextLimit]_vars

\* The request handlers on a hub that is in use: nobody, identity 1 alone,
\* or both identities are registered, identity 1 with a pump; users and
\* register requests arrive, the connection may fail.
InitUsers ==
  /\ \E R \in {{}, {1}, IDs} :
       Clients = [i \in IDs |-> IF i \notin R THEN NilChan
                                ELSE IF i = 1 THEN 1 ELSE 2]
  /\ req = [p \in Reqs |-> IdleReq]
  /\ conn = [c \in Conns |->
               IF c = 1 /\ Clients[1] # NilChan THEN PumpFor(1) ELSE FreeConn]
  /\ wire = [c \in Conns |-> <<>>]
  /\ out = NoOut
  /\ quota = [regs |-> MaxJoins, conns |-> MaxPumps, sends |-> 0,
              frames |-> 0, fails |-> MaxFails]
  /\ nacc = 0
  /\ crashed = FALSE

NextUsers ==
  \/ \E p \in Reqs, q \in IdQueries : listUsers(p, q)
  \/ \E p \in Reqs, userid \in IDs : ListRange(p, userid)
  \/ \E p \in Reqs : ListRespond(p)
  \/ \E p \in Reqs, q \in IdQueries : RegisterBegin(p, q)
  \/ \E p \in Reqs : RegisterRandCheck(p)
  \/ \E p \in Reqs : RegisterInsert(p)
  \/ \E c \in Conns : ConnFail(c)
  \/ \E c \in Conns : ReaderReadErr(c)
  \/ \E c \in Conns : ReaderDelete(c)
  \/ Fatal

SpecUsers == InitUsers /\ [][NextUsers]_vars

\* The users calls of any caller, one that no register call names among
\* them, while register calls and pump cleanups run.
NextSnapshot ==
  \/ \E p \in Reqs, q \in ListQueries : listUsers(p, q)
  \/ \E p \in Reqs, userid \in IDs : ListRange(p, userid)
  \/ \E p \in Reqs : ListRespond(p)
  \/ \E p \in Reqs, q \in IdQueries : RegisterBegin(p, q)
  \/ \E p \in Reqs : RegisterRandCheck(p)
  \/ \E p \in Reqs : RegisterInsert(p)
  \/ \E c \in Conns : ConnFail(c)
  \/ \E c \in Conns : ReaderReadErr(c)
  \/ \E c \in Conns : ReaderDelete(c)
  \/ Fatal

SpecSnapshot == InitUsers /\ [][NextSnapshot]_vars

\* The same hub, asked who is there: identify and ws requests arrive, the
\* connection may fail.
NextProbe ==
  \/ \E p \in Reqs, q \in IdQueries : selfIdentify(p, q)
  \/ \E p \in Reqs, q \in IdQueries, up \in BOOLEAN : websocketInit(p, q, up)
  \/ \E c \in Conns : ConnFail(c)
  \/ \E c \in Conns : ReaderReadErr(c)
  \/ \E c \in Conns : ReaderDelete(c)
  \/ \E c \in Conns : WriterSelect(c)
  \/ Fatal

SpecProbe == InitUsers /\ [][NextProbe]_vars

\* POST /send requests with and without ids, with a body, with an empty
\* body and with a nil body, on the hub of InitRoute.
NextBody ==
  \/ \E p \in Reqs, q \in RecipientQueries,
        body \in Bodies \cup {NoBody, EmptyBody} : SendBegin(p, q, body)
  \/ \E p \in Reqs : SendLookup(p)
  \/ \E p \in Reqs, w \in Conns : SendPush(p, w)
  \/ \E c \in Conns : WriterSelect(c)
  \/ \E c \in Conns : WriterWrite(c)

SpecBody == InitRoute /\ [][NextBody]_vars

\* The two ways into the router side by side: on the hub of InitRoute the
\* same recipient lists with the same payload arrive by POST /send and as
\* frames; no connection fails.
NextEquiv ==
  \/ \E p \in Reqs, q \in RecipientQueries \ {<<>>}, body \in Bodies :
       SendBegin(p, q, body)
  \/ \E p \in Reqs : SendLookup(p)
  \/ \E p \in Reqs, w \in Conns : SendPush(p, w)
  \/ \E c \in Conns, f \in EquivFrames : ReaderFrame(c, f)
  \/ \E c \in Conns : ReaderLookup(c)
  \/ \E c \in Conns, w \in Conns : ReaderPush(c, w)
  \/ \E c \in Conns : WriterSelect(c)
  \/ \E c \in Conns : WriterWrite(c)

SpecEquiv == InitRoute /\ [][NextEquiv]_vars

\* Peers talking to each other: both identities are registered and each
\* has a pump; envelopes arrive as frames on either connection, and the
\* connections may fail.
InitDeliver ==
  /\ Clients = [i \in IDs |-> IF i = 1 THEN 1 ELSE 2]
  /\ req = [p \in Reqs |-> IdleReq]
  /\ conn = [c \in Conns |->
               IF c = 1 THEN PumpFor(1)
               ELSE IF c = 2 THEN PumpFor(CHOOSE i \in IDs : i # 1)
               ELSE FreeConn]
  /\ wire = [c \in Conns |-> <<>>]
  /\ out = NoOut
  /\ quota = [regs |-> 0, conns |-> 0, sends |-> 0, frames |-> MaxFrames,
              fails |-> MaxFails]
  /\ nacc = 0
  /\ crashed = FALSE

NextDeliver ==
  \/ \E c \in Conns, f \in Frames : ReaderFrame(c, f)
  \/ \E c \in Conns : ReaderLookup(c)
  \/ \E c \in Conns, w \in Conns : ReaderPush(c, w)
  \/ \E c \in Conns : ConnFail(c)
  \/ \E c \in Conns : ReaderReadErr(c)
  \/ \E c \in Conns : ReaderDelete(c)
  \/ \E c \in Conns : WriterSelect(c)
  \/ \E c \in Conns : WriterWrite(c)
  \/ \E c \in Conns : WriterDelete(c)
  \/ Fatal

SpecDeliver == InitDeliver /\ [][NextDeliver]_vars

\* An identity that comes back: identity 1 is registered and has a pump;
\* envelopes arrive by POST /send, the connection may fail, and register
\* calls arrive that can register identity 1 anew once it has been removed.
InitRebind ==
  /\ Clients = [i \in IDs |-> IF i = 1 THEN 1 ELSE NilChan]
  /\ req = [p \in Reqs |-> IdleReq]
  /\ conn = [c \in Conns |-> IF c = 1 THEN PumpFor(1) ELSE FreeConn]
  /\ wire = [c \in Conns |-> <<>>]
  /\ out = NoOut
  /\ quota = [regs |-> MaxJoins, conns |-> 0, sends |-> MaxSends,
              frames |-> 0, fails |-> MaxFails]
  /\ nacc = 0
  /\ crashed = FALSE

NextRebind ==
  \/ \E p \in Reqs, q \in IdQueries : RegisterBegin(p, q)
  \/ \E p \in Reqs : RegisterRandCheck(p)
  \/ \E p \in Reqs : RegisterInsert(p)
  \/ \E p \in Reqs, q \in RecipientQueries, body \in Bodies :
       SendBegin(p, q, body)
  \/ \E p \in Reqs : SendLookup(p)
  \/ \E p \in Reqs, w \in Conns : SendPush(p, w)
  \/ \E c \in Conns : ConnFail(c)
  \/ \E c \in Conns : ReaderReadErr(c)
  \/ \E c \in Conns : ReaderDelete(c)
  \/ \E c \in Conns : WriterSelect(c)
  \/ \E c \in Conns : WriterWrite(c)
  \/ \E c \in Conns : WriterDelete(c)
  \/ Fatal

SpecRebind == InitRebind /\ [][NextRebind]_vars

\* The long-lived requests: identity 1 is registered, stream requests and
\* POST /send requests arrive, callers of stream requests go away.
InitStream ==
  /\ Clients = [i \in IDs |-> IF i = 1 THEN 1 ELSE NilChan]
  /\ req = [p \in Reqs |-> IdleReq]
  /\ conn = [c \in Conns |-> FreeConn]
  /\ wire = [c \in Conns |-> <<>>]
  /\ out = NoOut
  /\ quota = [regs |-> 0, conns |-> 0, sends |-> MaxSends + 1,
              frames |-> 0, fails |-> 0]
  /\ nacc = 0
  /\ crashed = FALSE

NextStream ==
  \/ \E p \in Reqs, q \in IdQueries : stream(p, q)
  \/ \E s \in Reqs : StreamSelect(s)
  \/ \E s \in Reqs : StreamDisconnect(s)
  \/ \E s \in Reqs : StreamClosed(s)
  \/ \E s \in Reqs, p \in Reqs : StreamDeliver(s, p)
  \/ \E p \in Reqs, q \in RecipientQueries, body \in Bodies :
       SendBegin(p, q, body)
  \/ \E p \in Reqs : SendLookup(p)

SpecStream == InitStream /\ [][NextStream]_vars

\* Frames to identities that are not there: identity 1 is registered and
\* has a pump, 9001 is not registered; the peer of 1 sends frames, register
\* calls arrive, the connection may fail.
InitStuck ==
  /\ Clients = [i \in IDs |-> IF i = 1 THEN 1 ELSE NilChan]
  /\ req = [p \in Reqs |-> IdleReq]
  /\ conn = [c \in Conns |-> IF c = 1 THEN PumpFor(1) ELSE FreeConn]
  /\ wire = [c \in Conns |-> <<>>]
  /\ out = NoOut
  /\ quota = [regs |-> MaxJoins, conns |-> 0, sends |-> 0,
              frames |-> MaxFrames, fails |-> MaxFails]
  /\ nacc = 0
  /\ crashed = FALSE

NextStuck ==
  \/ \E c \in Conns, f \in Frames : ReaderFrame(c, f)
  \/ \E c \in Conns : ReaderLookup(c)
  \/ \E c \in Conns, w \in Conns : ReaderPush(c, w)
  \/ \E p \in Reqs, q \in IdQueries : RegisterBegin(p, q)
  \/ \E p \in Reqs : RegisterRandCheck(p)
  \/ \E p \in Reqs : RegisterInsert(p)
  \/ \E c \in Conns : ConnFail(c)
  \/ \E c \in Conns : ReaderReadErr(c)
  \/ \E c \in Conns : ReaderDelete(c)
  \/ \E c \in Conns : WriterSelect(c)
  \/ \E c \in Conns : WriterWrite(c)
  \/ \E c \in Conns : WriterDelete(c)
  \/ Fatal

SpecStuck == InitStuck /\ [][NextStuck]_vars

\* Peers that send to one another: both identities are registered and
\* have pumps whose connections work throughout; frames that name
\* identities arrive on either connection and POST /send requests arrive:
\* frames and requests, or one more frame and no request.  Nothing writes
\* the map, so no access to it overlaps a write.
InitCycle ==
  /\ Clients = [i \in IDs |-> IF i = 1 THEN 1 ELSE 2]
  /\ req = [p \in Reqs |-> IdleReq]
  /\ conn = [c \in Conns |->
               IF c = 1 THEN PumpFor(1)
               ELSE IF c = 2 THEN PumpFor(CHOOSE i \in IDs : i # 1)
               ELSE FreeConn]
  /\ wire = [c \in Conns |-> <<>>]
  /\ out = NoOut
  /\ \E s \in {0, MaxSends} :
       quota = [regs |-> 0, conns |-> 0, sends |-> s,
                frames |-> IF s = 0 THEN MaxFrames + 1 ELSE MaxFrames,
                fails |-> 0]
  /\ nacc = 0
  /\ crashed = FALSE

NextCycle ==
  \/ \E p \in Reqs, q \in NamedQueries, body \in Bodies :
       SendBegin(p, q, body)
  \/ \E p \in Reqs : SendLookup(p)
  \/ \E p \in Reqs, w \in Conns : SendPush(p, w)
  \/ \E c \in Conns, f \in NamedFrames : ReaderFrame(c, f)
  \/ \E c \in Conns : ReaderLookup(c)
  \/ \E c \in Conns, w \in Conns : ReaderPush(c, w)
  \/ \E c \in Conns : WriterSelect(c)
  \/ \E c \in Conns : WriterWrite(c)

SpecCycle == InitCycle /\ [][NextCycle]_vars

\* Every route on a small hub: identity 1 is registered and has a pump;
\* identify and users calls arrive at any time, together with register
\* calls or handshakes or POST /send calls or frames, and connections fail.
InitHub ==
  /\ Clients = [i \in IDs |-> IF i = 1 THEN 1 ELSE NilChan]
  /\ req = [p \in Reqs |-> IdleReq]
  /\ conn = [c \in Conns |-> IF c = 1 THEN PumpFor(1) ELSE FreeConn]
  /\ wire = [c \in Conns |-> <<>>]
  /\ out = NoOut
  /\ \E k \in {"regs", "conns", "sends", "frames"} :
       quota = [regs |-> IF k = "regs" THEN MaxJoins ELSE 0,
                conns |-> IF k = "conns" THEN MaxPumps ELSE 0,
                sends |-> IF k = "sends" THEN MaxSends ELSE 0,
                frames |-> IF k = "frames" THEN MaxFrames ELSE 0,
                fails |-> MaxFails]
  /\ nacc = 0
  /\ crashed = FALSE

\* one users call at a time
NextHub ==
  \/ \E p \in Reqs, q \in IdQueries : RegisterBegin(p, q)
  \/ \E p \in Reqs : RegisterRandCheck(p)
  \/ \E p \in Reqs : RegisterInsert(p)
  \/ /\ \A x \in Reqs : req[x].kind # "users"
     /\ \E p \in Reqs, q \in IdQueries : listUsers(p, q)
  \/ \E p \in Reqs, userid \in IDs : ListRange(p, userid)
  \/ \E p \in Reqs : ListRespond(p)
  \/ \E p \in Reqs, q \in IdQueries : selfIdentify(p, q)
  \/ \E p \in Reqs, q \in RecipientQueries, body \in Bodies \cup {NoBody} :
       SendBegin(p, q, body)
  \/ \E p \in Reqs : SendLookup(p)
  \/ \E p \in Reqs, w \in Conns : SendPush(p, w)
  \/ \E p \in Reqs, q \in IdQueries, up \in BOOLEAN : websocketInit(p, q, up)
  \/ \E c \in Conns : ConnFail(c)
  \/ \E c \in Conns, f \in Frames : ReaderFrame(c, f)
  \/ \E c \in Conns : ReaderLookup(c)
  \/ \E c \in Conns, w \in Conns : ReaderPush(c, w)
  \/ \E c \in Conns : ReaderReadErr(c)
  \/ \E c \in Conns : ReaderDelete(c)
  \/ \E c \in Conns : WriterSelect(c)
  \/ \E c \in Conns : WriterWrite(c)
  \/ \E c \in Conns : WriterDelete(c)
  \/ Fatal


SpecHub == InitHub /\ [][NextHub]_vars

(***************************************************************************)
(* Scheduling.  The Go scheduler runs every goroutine that can take a     *)
(* step, and the senders blocked on a channel are served in arrival order,*)
(* so a send that a receiver could complete again and again does complete.*)
(* Nothing obliges the environment (new requests, frames, connection      *)
(* failures) to act, nor the runtime to detect a race.                     *)
(***************************************************************************)
Fairness ==
  /\ \A p \in Reqs : WF_vars(RegisterRandCheck(p))
  /\ \A p \in Reqs : WF_vars(RegisterInsert(p))
  /\ \A p \in Reqs : WF_vars(SendLookup(p))
  /\ \A p \in Reqs, w \in Conns : SF_vars(SendPush(p, w))
  /\ \A c \in Conns : WF_vars(ReaderLookup(c))
  /\ \A c \in Conns, w \in Conns : SF_vars(ReaderPush(c, w))
  /\ \A c \in Conns : WF_vars(ReaderReadErr(c))
  /\ \A c \in Conns : WF_vars(ReaderDelete(c))
  /\ \A c \in Conns : WF_vars(WriterSelect(c))
  /\ \A c \in Conns : WF_vars(WriterWrite(c))
  /\ \A c \in Conns : WF_vars(WriterDelete(c))

LiveRoute == SpecRoute /\ Fairness

LiveFanout == SpecFanout /\ Fairness

\* the same scheduling, for the goroutines of the pumps alone
FairPumps ==
  /\ \A c \in Conns : WF_vars(ReaderLookup(c))
  /\ \A c \in Conns : SF_vars(\E w \in Conns : ReaderPush(c, w))
  /\ \A c \in Conns : WF_vars(ReaderReadErr(c))
  /\ \A c \in Conns : WF_vars(ReaderDelete(c))
  /\ \A c \in Conns : WF_vars(WriterSelect(c))
  /\ \A c \in Conns : WF_vars(WriterWrite(c))
  /\ \A c \in Conns : WF_vars(WriterDelete(c))

LiveDeliver == SpecDeliver /\ FairPumps

\* the same scheduling for the steps of the pumps and of POST /send
FairCycle ==
  /\ \A p \in Reqs : WF_vars(SendLookup(p))
  /\ \A p \in Reqs : SF_vars(\E w \in Conns : SendPush(p, w))
  /\ \A c \in Conns : WF_vars(ReaderLookup(c))
  /\ \A c \in Conns : SF_vars(\E w \in Conns : ReaderPush(c, w))
  /\ \A c \in Conns : WF_vars(WriterSelect(c))
  /\ \A c \in Conns : WF_vars(WriterWrite(c))

LiveCycle == SpecCycle /\ FairCycle

(***************************************************************************)
(* Properties                                                              *)
(***************************************************************************)
\* identity X as the query string q names it
IdOf(q) == ParseUint(q).val

\* q is a present, well-formed identity
Names(q) == q # <<>> /\ ParseUint(q).err = ""

\* C1: explicit registration is unique.  A register call that names an
\* identity X which is not in the registry goes on to insert X and answers
\* 200 with body X, after which X is in the registry; a register call that
\* names an X which is in the registry answers 400 "ID already in use" and
\* leaves the registry alone; identify answers 200 with X exactly for a
\* registered X.
C1_ExplicitRegisterUnique ==
  [][ /\ \A p \in Reqs :
           (req[p].pc = "idle" /\ req'[p].kind = "register" /\ req'[p].arg # <<>>)
             => /\ Clients[IdOf(req'[p].arg)] = NilChan
                /\ req'[p].pc = "insert"
                /\ req'[p].id = IdOf(req'[p].arg)
      /\ \A p \in Reqs :
           (req[p].pc = "insert" /\ req[p].arg # <<>> /\ req'[p].pc = "idle")
             => /\ out' = Response("register", req[p].arg, 200, "",
                                   IdOf(req[p].arg))
                /\ Clients'[IdOf(req[p].arg)] # NilChan
      /\ (out'.kind = "register" /\ out'.code = 400 /\ Names(out'.arg))
             => /\ out'.msg = "ID already in use"
                /\ IdOf(out'.arg) \in Registered
                /\ Clients' = Clients
      /\ (out'.kind = "identify" /\ Names(out'.arg))
             => IF IdOf(out'.arg) \in Registered
                THEN out'.code = 200 /\ out'.body = IdOf(out'.arg)
                ELSE out'.code = 400 /\ out'.msg = "ID not registered"
    ]_vars

\* C1 witness: register(9001) is refused because 9001 is registered
C1_Witness ==
  /\ out = Response("register", <<"9", "0", "0", "1">>, 400,
                    "ID already in use", 0)
  /\ 9001 \in Registered

\* C2: check-then-insert is atomic.  An identity that is in the registry
\* keeps its queue until it is removed, and a register call reports success
\* for an identity only if the identity was not in the registry when the
\* call inserted it.
C2_AtomicCheckThenInsert ==
  [][ /\ \A i \in IDs :
           Clients[i] # NilChan => Clients'[i] \in {Clients[i], NilChan}
      /\ (out'.kind = "register" /\ out'.code = 200)
           => Clients[out'.body] = NilChan
    ]_vars

\* C3: a register call without id that succeeds returns an identity that
\* was absent from the registry just before its insertion and is present
\* just after it.
C3_RandomRegisterFresh ==
  [][ \A p \in Reqs :
        (req[p].pc = "insert" /\ req[p].arg = <<>> /\ req'[p].pc = "idle")
          => /\ out'.code = 200 /\ out'.body = req[p].id
             /\ Clients[req[p].id] = NilChan
             /\ Clients'[req[p].id] # NilChan
    ]_vars

\* C4: a send that fails because a recipient is not registered has written
\* to no queue.
C4_NoWriteWhenUnregistered ==
  [][ \A p \in Reqs :
        (req[p].kind = "send" /\ req'[p].kind = "idle"
           /\ out'.msg = "ID not registered")
          => req[p].sent = <<>>
    ]_vars

\* C5: a send that fails because a token of the recipient list does not
\* parse has written to no queue.
C5_NoWriteWhenUnparsable ==
  [][ \A p \in Reqs :
        (req[p].kind = "send" /\ req'[p].kind = "idle"
           /\ out'.msg \in {"invalid syntax", "value out of range"})
          => req[p].sent = <<>>
    ]_vars

\* what the send call in slot p has pushed once its current push completes
PushedBy(p) == Append(req[p].sent, <<req[p].id, req[p].b>>)

\* C6: a send that succeeds has pushed exactly one entry per recipient, and
\* every entry is the submitted payload, byte for byte.
C6_EntryEqualsPayload ==
  [][ \A p \in Reqs :
        (req[p].pc = "push" /\ req'[p].kind = "idle" /\ out'.code = 200)
          => /\ Len(PushedBy(p)) = Len(req[p].ids)
             /\ \A i \in 1..Len(req[p].ids) :
                  PushedBy(p)[i] = <<IdOf(req[p].ids[i]), req[p].payload>>
    ]_vars

\* C7: per-recipient FIFO.  The frames a connection's writer has put on
\* the wire are in the order in which the channel sends completed, and no
\* completed send shows up twice, on the same or on another connection.
C7_PerRecipientFifo ==
  /\ \A c \in Conns : \A i, j \in 1..Len(wire[c]) :
       i < j => wire[c][i][1] < wire[c][j][1]
  /\ \A c, d \in Conns : \A i \in 1..Len(wire[c]), j \in 1..Len(wire[d]) :
       c # d => wire[c][i][1] # wire[d][j][1]
  /\ \A c \in Conns : \A i \in 1..Len(wire[c]) : wire[c][i][1] \in 1..nacc

\* C7 witness: two payloads accepted for identity 1 are both on its wire
C7_Witness == \E c \in Conns : conn[c].id = 1 /\ Len(wire[c]) = 2

\* C8: no route blocks forever: as long as the process runs, every POST
\* /send handler eventually answers, and every reader that routes a frame
\* eventually gets back to reading (or ends).
C8_RouteNeverBlocks ==
  /\ \A p \in Reqs :
       (req[p].kind = "send") ~> (req[p].kind = "idle" \/ crashed)
  /\ \A c \in Conns :
       (conn[c].rpc \in {"loop", "push"})
         ~> (conn[c].rpc \in {"read", "exit"} \/ crashed)

\* identity i has a live consumer: a pump on a working connection
LiveConsumer(i) ==
  \E c \in Conns : conn[c].id = i /\ Usable(c)
                   /\ conn[c].wpc \in {"select", "recv", "write"}

\* every recipient of the send in slot p is registered with a live consumer
AllLive(p) ==
  \A k \in 1..Len(req[p].ids) :
    /\ Names(req[p].ids[k])
    /\ IdOf(req[p].ids[k]) \in Registered
    /\ LiveConsumer(IdOf(req[p].ids[k]))

\* C9: a POST /send whose recipients are all registered with a live
\* consumer eventually answers 200 (unless a recipient stops being so), and
\* the pushes happen in recipient-list order, one after the other.
C9_SendCompletesInOrder ==
  /\ [][ \A p \in Reqs :
           (req[p].pc = "push" /\ req'[p] # req[p])
             => /\ Len(PushedBy(p)) = req[p].idx
                /\ \A i \in 1..req[p].idx :
                     PushedBy(p)[i][1] = IdOf(req[p].ids[i])
     ]_vars
  /\ \A p \in Reqs :
       (req[p].kind = "send" /\ AllLive(p))
         ~> \/ req[p].kind = "idle" /\ out.kind = "send" /\ out.code = 200
            \/ req[p].kind = "send" /\ ~AllLive(p)

\* C10: a recipient list of more than 255 entries never gets to the loop
\* that parses and resolves its entries, whether it came by POST /send or
\* in a frame; a list is refused for its length only if it has more than
\* 255 entries.
C10_LimitOnEveryPath ==
  [][ /\ \A p \in Reqs :
           (req[p].pc = "idle" /\ req'[p].pc = "loop")
             => Len(req'[p].ids) <= MaxRecipientCount
      /\ \A c \in Conns :
           (conn[c].rpc = "read" /\ conn'[c].rpc = "loop")
             => Len(conn'[c].rids) <= MaxRecipientCount
      /\ (out'.kind = "send"
            /\ out'.msg = "Maximum number of clients to send messages is 255")
             => Len(Split(out'.arg)) > MaxRecipientCount
    ]_vars

\* the POST /send handler in slot p and the reader of connection c are at
\* the same entry of the same envelope
SameEnvelope(p, c) ==
  /\ req[p].kind = "send"
  /\ conn[c].rpc \in {"loop", "push"}
  /\ req[p].ids = conn[c].rids
  /\ req[p].payload = conn[c].rdata
  /\ req[p].idx = conn[c].ridx

\* C11: the router treats an envelope alike on both paths.  When a POST
\* /send handler and a reader are about to push for the same entry of the
\* same envelope, they push the same bytes to the same queue; and a reader
\* that comes to an entry which POST /send rejects (unparsable, or not
\* registered) drops the envelope as POST /send does, and goes back to
\* reading.
C11_SameOnBothPaths ==
  /\ [](\A p \in Reqs, c \in Conns :
          (SameEnvelope(p, c) /\ req[p].pc = "push" /\ conn[c].rpc = "push")
            => /\ req[p].b = conn[c].rdata
               /\ req[p].ch = conn[c].rch)
  /\ [][ \A c \in Conns :
           (/\ conn[c].rpc = "loop"
            /\ conn'[c] # conn[c]
            /\ LET r == ParseUint(conn[c].rids[conn[c].ridx]) IN
               r.err # "" \/ Lookup(r.val) = NilChan)
             => conn'[c].rpc = "read"
     ]_vars

C13_ListWithoutCaller ==
  [][ (out'.kind = "users" /\ out'.arg = <<>>)
        => out'.code = 200 /\ out'.IDs = Registered
    ]_vars

\* C14: a users call whose id is missing or does not parse answers 400
\* with no identities and changes nothing, and never gets to the range
\* over the map.
C14_ListRejectsBadId ==
  [][ /\ (out'.kind = "users" /\ ~Names(out'.arg))
           => /\ out'.code = 400 /\ out'.IDs = {}
              /\ UNCHANGED <<Clients, req, conn, wire, nacc>>
      /\ \A p \in Reqs :
           (req[p].pc = "idle" /\ req'[p].kind = "users") => Names(req'[p].arg)
    ]_vars

\* C14 witness: both identities are registered and a users call with the
\* id "x" has been answered 400
C14_Witness ==
  /\ Registered = IDs
  /\ out = Response("users", <<"x">>, 400, "invalid syntax", 0)

\* C15: identify answers 200 with X exactly when X is registered at the
\* time of the call, 400 "ID not registered" when X is not, 400 when the id
\* is missing or does not parse, and in every case leaves the registry,
\* the connections and the queues as they were.
C15_IdentifyEchoes ==
  [][ (out'.kind = "identify")
        => /\ UNCHANGED <<Clients, req, conn, wire, nacc>>
           /\ IF out'.arg = <<>>
              THEN out'.code = 400 /\ out'.msg = "ID is required"
              ELSE IF ParseUint(out'.arg).err # ""
              THEN out'.code = 400 /\ out'.msg = ParseUint(out'.arg).err
              ELSE IF IdOf(out'.arg) \in Registered
              THEN out'.code = 200 /\ out'.body = IdOf(out'.arg)
              ELSE out'.code = 400 /\ out'.msg = "ID not registered"
    ]_vars

\* C15 witness: identity 1 is registered, 9001 is not, and identify(9001)
\* has been refused
C15_Witness ==
  /\ Registered = {1}
  /\ out = Response("identify", <<"9", "0", "0", "1">>, 400,
                    "ID not registered", 0)

\* C16: a register that answers 200 has added exactly one entry, for the
\* identity it returns, with a new channel that nothing has been sent on
\* and nobody else holds, and has left every other entry alone; a register
\* that answers anything else has left the registry as it was.
C16_RegisterFrame ==
  [][ (out'.kind = "register")
        => IF out'.code = 200
           THEN /\ out'.body \notin Registered
                /\ Registered' = Registered \cup {out'.body}
                /\ Clients'[out'.body] \notin UsedChans
                /\ \A i \in IDs \ {out'.body} : Clients'[i] = Clients[i]
           ELSE Clients' = Clients
    ]_vars

\* C17: the retries of a register without id are bounded by maxAttempts.
\* Every evaluation of the loop condition examines one candidate, the
\* first with attempts = 0; the call examines at most maxAttempts
\* candidates, and when it gives up it answers 500 "Failed to find ID not
\* in use" and inserts nothing.
C17_BoundedRetries ==
  [][ \A p \in Reqs :
        (req[p].pc = "randcheck" /\ req'[p] # req[p])
          => /\ req[p].attempts + 1 <= maxAttempts
             /\ (req'[p].pc = "idle")
                  => /\ out' = Response("register", req[p].arg, 500,
                                        "Failed to find ID not in use", 0)
                     /\ Clients' = Clients
    ]_vars

\* C18: a POST /send without ids or without a request body answers 400,
\* changes nothing, and goes no further: no handler gets to the recipient
\* loop without ids or without bytes to send.
C18_SendNeedsIdsAndBody ==
  [][ /\ (out'.kind = "send"
            /\ \/ out'.arg = <<>>
               \/ out'.msg = "Body expected for a sendmessage call")
           => /\ out'.code = 400
              /\ UNCHANGED <<Clients, req, conn, wire, nacc>>
      /\ \A p \in Reqs :
           (req[p].pc = "idle" /\ req'[p].kind = "send")
             => /\ req'[p].arg # <<>>
                /\ req'[p].payload \notin {NoBody, EmptyBody}
    ]_vars

\* C19: the ws handshake is refused with 400, with nothing changed and no
\* reader or writer started, when the id is missing, does not parse or is
\* not registered; a handshake that is accepted starts one pump, for the
\* identity it was asked for, and that identity is registered.
C19_HandshakeValidates ==
  [][ /\ (out'.kind = "ws")
           => IF ~Names(out'.arg) \/ IdOf(out'.arg) \notin Registered
              THEN /\ out'.code = 400
                   /\ UNCHANGED <<Clients, req, conn, wire, nacc>>
              ELSE /\ UNCHANGED <<Clients, req, wire, nacc>>
                   /\ IF out'.code = 101
                      THEN \E c \in Conns :
                             /\ conn[c].st = "free"
                             /\ conn' = [conn EXCEPT ![c] =
                                  [FreeConn EXCEPT !.st = "open",
                                                   !.id = IdOf(out'.arg),
                                                   !.bound =
                                                      Clients[IdOf(out'.arg)],
                                                   !.rpc = "read",
                                                   !.wpc = "select"]]
                      ELSE conn' = conn
      /\ \A c \in Conns :
           (conn[c].st = "free" /\ conn'[c].st # "free")
             => /\ conn'[c].id \in Registered
                /\ out'.kind = "ws" /\ out'.code = 101
    ]_vars

\* C19 witness: identity 1 is registered, 9001 is not, and a handshake for
\* 9001 has been refused
C19_Witness ==
  /\ Registered = {1}
  /\ out = Response("ws", <<"9", "0", "0", "1">>, 400, "ID not registered", 0)

\* C20: as long as the process runs, a connection whose reads fail is
\* eventually cleaned up by its reader: the connection is closed, the
\* reader has ended, and the owning identity is out of the registry.
C20_ReadFailureCleansUp ==
  \A c \in Conns :
    (conn[c].st # "free" /\ conn[c].io = "broken")
      ~> \/ crashed
         \/ /\ conn[c].st = "closed"
            /\ conn[c].rpc = "exit"
            /\ Clients[conn[c].id] = NilChan

\* C21: the cleanup of a connection happens once.  A unit closes the
\* connection only if it is still open, and when the reader has already
\* removed the identity, the writer's removal changes nothing in the
\* registry.
C21_CleanupOnce ==
  [][ \A c \in Conns :
        /\ (\/ conn[c].rpc = "read" /\ conn'[c].rpc = "delete"
            \/ conn[c].wpc = "write" /\ conn'[c].wpc = "delete")
             => conn[c].st = "open"
        /\ (conn[c].wpc = "delete" /\ conn'[c].wpc # "delete"
              /\ conn[c].rpc = "exit")
             => Clients' = Clients
    ]_vars

\* C24: a write failure is fatal for the writer.  The failed write closes
\* the connection, the next step of the writer removes the owning identity,
\* and with that the writer has ended: it is never again about to wait on,
\* or waiting on, a queue.
C24_WriteFailureEndsWriter ==
  [][ \A c \in Conns :
        /\ (conn[c].wpc = "write" /\ conn'[c].wpc # "write" /\ ~Usable(c))
             => conn'[c].st = "closed" /\ conn'[c].wpc = "delete"
        /\ (conn[c].wpc = "delete" /\ conn'[c].wpc # "delete")
             => /\ Clients'[conn[c].id] = NilChan
                /\ conn'[c].wpc \notin {"select", "recv", "write"}
    ]_vars

\* the writer of connection c has not ended
WriterRuns(c) == conn[c].wpc \in {"select", "recv", "write", "delete"}

\* C25: as long as the process runs, both units of a pump end after the
\* first fatal error: once the connection has been closed by either unit,
\* the reader and the writer are eventually both gone.
C25_BothUnitsEnd ==
  \A c \in Conns :
    (conn[c].st = "closed")
      ~> (crashed \/ (conn[c].rpc = "exit" /\ ~WriterRuns(c)))

\* C27: a frame that does not decode is logged and dropped: nothing is
\* written to a queue, the registry and the connection stay as they are,
\* and the reader is back at reading the next frame of the open connection.
C27_DecodeFailureNotFatal ==
  [][ (out'.kind = "log" /\ out'.msg = "Unable unmarshal message")
        => /\ UNCHANGED <<Clients, req, conn, wire, nacc>>
           /\ \E c \in Conns :
                /\ conn'[c].rpc = "read"
                /\ conn'[c].st = "open"
                /\ conn'[c].id \in Registered'
    ]_vars

\* C27 witness: a frame that does not decode has just been dropped on the
\* open connection of identity 1, which is still registered
C27_Witness ==
  /\ out = LogLine("Unable unmarshal message")
  /\ \E c \in Conns : conn[c].id = 1 /\ Usable(c) /\ conn[c].rpc = "read"
  /\ 1 \in Registered

\* C28: at most one writer that has not hit a failure is attached to an
\* identity at any time.
C28_SingleConsumer ==
  \A c, d \in Conns :
    (c # d /\ conn[c].st = "open" /\ conn[d].st = "open"
       /\ conn[c].wpc \in {"select", "recv", "write"}
       /\ conn[d].wpc \in {"select", "recv", "write"})
      => conn[c].id # conn[d].id

\* C29: no write of the map overlaps another access of the map: there are
\* never two goroutines of which one is about to write the map and the
\* other is about to read or write it, and the runtime never aborts the
\* process over such an overlap.
C29_MapAccessSerialised ==
  /\ ~crashed
  /\ \A u \in MapWriters : \A v \in MapWriters \cup MapReaders : u = v

\* some connection has failed or been closed, or the process has aborted
Broken ==
  \/ crashed
  \/ \E c \in Conns : conn[c].st # "free" /\ ~Usable(c)

\* C22: end-to-end delivery between peers whose connections work.  The
\* push of a reader for an entry naming identity B completes with a writer
\* of a connection of B, which takes exactly the envelope's Data; a writer
\* that holds a payload and whose connection works leaves the write only
\* by putting that payload, once, on its connection; and as long as no
\* connection fails, every reader gets through its envelope and every
\* writer gets its payload written.
C22_EndToEndDelivery ==
  /\ [][ /\ \A c \in Conns :
              (conn[c].rpc = "push"
                 /\ (conn'[c].rpc # "push" \/ conn'[c].ridx # conn[c].ridx))
                => \E w \in Conns :
                     /\ conn[w].wpc = "recv" /\ conn'[w].wpc = "write"
                     /\ conn[w].id = IdOf(conn[c].rids[conn[c].ridx])
                     /\ conn'[w].wmsg = conn[c].rdata
         /\ \A w \in Conns :
              (conn[w].wpc = "write" /\ conn'[w].wpc # "write" /\ Usable(w))
                => wire'[w] = Append(wire[w], <<conn[w].wtag, conn[w].wmsg>>)
         /\ \A w \in Conns :
              (wire'[w] # wire[w])
                => /\ conn[w].wpc = "write"
                   /\ Len(wire'[w]) = Len(wire[w]) + 1
                   /\ \A x \in Conns : \A i \in 1..Len(wire[x]) :
                        wire[x][i][1] # conn[w].wtag
     ]_vars
  /\ \A c \in Conns :
       (conn[c].rpc \in {"loop", "push"}) ~> (conn[c].rpc = "read" \/ Broken)
  /\ \A w \in Conns :
       (conn[w].wpc = "write") ~> (conn[w].wpc # "write" \/ Broken)

\* C22 witness: the connection of identity 9001 has sent a frame naming 1
\* and 9001; the first entry is on the wire of identity 1's connection,
\* the reader is at the second, and no connection has failed
C22_Witness ==
  /\ ~Broken
  /\ \E a, b \in Conns :
       /\ conn[b].id = 9001 /\ conn[a].id = 1
       /\ conn[b].rpc = "loop" /\ conn[b].ridx = 2
       /\ conn[b].rids = <<<<"1">>, <<"9", "0", "0", "1">>>>
       /\ Len(wire[a]) = 1 /\ wire[a][1][2] = conn[b].rdata

\* a unit of connection c runs its delete(h.Clients, connectedID)
Deletes(c) ==
  \/ conn[c].rpc = "delete" /\ conn'[c].rpc = "exit"
  \/ conn[c].wpc = "delete" /\ conn'[c].wpc # "delete"

\* C26: an entry goes away only in the cleanup of a pump of its identity,
\* and a pump touches only the registration it was started for: its
\* cleanup removes no entry that holds another channel than the one the
\* identity had at the handshake, and its writer takes payloads from no
\* other channel.
C26_CleanupOwnRegistration ==
  [][ /\ \A i \in IDs :
           (Clients[i] # NilChan /\ Clients'[i] = NilChan)
             => \E c \in Conns : conn[c].id = i /\ Deletes(c)
      /\ \A c \in Conns :
           (Deletes(c) /\ Clients[conn[c].id] # NilChan)
             => Clients[conn[c].id] = conn[c].bound
      /\ \A w \in Conns :
           (conn[w].wpc = "recv" /\ conn'[w].wpc = "write")
             => conn[w].wch = conn[w].bound
    ]_vars

\* C30: the answer of a users call is the key set of the registry, less
\* the caller, as it was at one instant between the arrival of the call and
\* its answer, whatever register calls and pump cleanups run meanwhile.
C30_ListIsSnapshot ==
  [][ \A p \in Reqs :
        (req[p].pc = "range" /\ req'[p].pc = "idle")
          => \E S \in req[p].insts : out'.IDs = S \ {IdOf(req[p].arg)}
    ]_vars

\* C23: a stream request delivers one payload: the step that writes a
\* chunk ends the request, so that no request writes a second one, and
\* once the caller has gone away the request takes no payload from the
\* queue.
C23_OnePayloadPerRequest ==
  [][ \A s \in Reqs :
        (req[s].kind = "stream" /\ req'[s].chunks # req[s].chunks)
          => /\ req'[s].pc = "idle"
             /\ ~req[s].closed
    ]_vars

\* the reader of c is in the send of a frame's payload on the nil channel
StuckReader(c) == conn[c].rpc = "push" /\ conn[c].rch = NilChan

\* C31: a reader that comes to a recipient that parses and is not in the
\* registry goes into a send on the nil channel, and from then on it stays
\* there with the frame it holds: it reads no frame, routes nothing and
\* sees no read error, whatever is registered and whatever happens to the
\* connection afterwards.
C31_UnknownRecipientBlocksReader ==
  [][ \A c \in Conns :
        /\ ( /\ conn[c].rpc = "loop"
             /\ ( conn'[c].rpc # conn[c].rpc
                  \/ conn'[c].ridx # conn[c].ridx )
             /\ ParseUint(conn[c].rids[conn[c].ridx]).err = ""
             /\ Lookup(ParseUint(conn[c].rids[conn[c].ridx]).val) = NilChan )
           => StuckReader(c)'
        /\ StuckReader(c)
           => /\ StuckReader(c)'
              /\ conn'[c].rids = conn[c].rids
              /\ conn'[c].ridx = conn[c].ridx
              /\ conn'[c].rdata = conn[c].rdata
              /\ out'.msg # "Error reading message"
    ]_vars

\* C31 witness: the reader is in its send to 9001, which has been
\* registered since, and the connection has failed
C31_Witness ==
  /\ StuckReader(1)
  /\ ParseUint(conn[1].rids[conn[1].ridx]).val = 9001
  /\ 9001 \in Registered
  /\ conn[1].io = "broken"
  /\ ~crashed

\* the pump of c runs: the connection is there and neither unit has had a
\* read or a write fail on it
Running(c) == ~crashed /\ conn[c].st = "open"

\* C32: the identity of every running pump is in the registry.
C32_RunningPumpRegistered ==
  \A c \in Conns : Running(c) => conn[c].id \in Registered

\* the send of POST /send request p completes in this step
SendDone(p) == req[p].pc = "push" /\ req'[p].pc # "push"

\* the send of the reader of c completes in this step
ReaderSendDone(c) == conn[c].rpc = "push" /\ conn'[c].rpc # "push"

\* the writer of w receives msg from channel ch in this step
Receives(w, ch, msg) ==
  /\ conn[w].wpc = "recv" /\ conn'[w].wpc = "write"
  /\ conn[w].wch = ch /\ conn'[w].wmsg = msg

C34_FanoutNeverDeadlocks ==
  /\ \A c \in Conns : []<>(conn[c].rpc \notin {"loop", "push"})
  /\ \A p \in Reqs : []<>(req[p].pc \notin {"loop", "push"})

\* C34 witness: each reader is in its send to the other identity, and the
\* writer of identity 1 holds the payload that identity 1 has sent to
\* itself and has yet to write it
C34_Witness ==
  /\ conn[1].rpc = "push" /\ conn[1].rch = Clients[conn[2].id]
  /\ conn[2].rpc = "push" /\ conn[2].rch = Clients[conn[1].id]
  /\ conn[1].wpc = "write"
  /\ wire = [c \in Conns |-> <<>>]

\* C35: the key set of the registry changes only by the insert of a
\* register call, which adds the identity of that call, and by the
\* cleanup of a pump after a failed read or write, which removes the
\* identity of that pump; every other step of every handler and of every
\* pump leaves it as it is.
C35_OnlyRegisterAndCleanupChangeKeys ==
  [][ \A i \in IDs :
        /\ (i \notin Registered /\ i \in Registered')
             => \E p \in Reqs :
                  /\ req[p].kind = "register" /\ req[p].pc = "insert"
                  /\ req[p].id = i /\ req'[p].pc = "idle"
        /\ (i \in Registered /\ i \notin Registered')
             => \E c \in Conns :
                  conn[c].id = i /\ conn[c].st = "closed" /\ Deletes(c)
    ]_vars

\* C35 witness: a register call has put 9001 into the registry, the
\* cleanup of the failed pump of 1 has taken 1 out of it, and an identify
\* call of 9001 has just been answered
C35_Witness ==
  /\ Registered = {9001}
  /\ conn[1].rpc = "exit"
  /\ out = Response("identify", <<"9", "0", "0", "1">>, 200, "", 9001)
  /\ ~crashed

\* the body followed by i newline bytes
WithNewlines(body, i) == body \o [k \in 1..i |-> "\n"]

LostPayload(t) ==
  \A c \in Conns :
    /\ conn[c].wtag # t
    /\ \A i \in 1..Len(wire[c]) : wire[c][i][1] # t

\* the write of the writer of w fails in this step
WriteFails(w) ==
  conn[w].wpc = "write" /\ conn'[w].wpc # "write" /\ ~Usable(w)

\* C37: a payload whose write fails is lost.  The failing step puts it on
\* no connection, leaves every sender and every request as it was, and
\* leaves the payload with no writer; a payload that is with no writer and
\* on no connection stays so; and the POST /send that has handed its last
\* payload to a writer answers 200, whatever becomes of the payload and
\* even when that writer's connection has failed already.
C37_FailedWriteLosesPayload ==
  [][ /\ \A w \in Conns :
           WriteFails(w)
             => /\ wire' = wire
                /\ req' = req
                /\ \A c \in Conns : conn'[c].rpc = conn[c].rpc
                /\ \A t \in 1..nacc :
                     t = conn[w].wtag => LostPayload(t)'
      /\ \A t \in 1..nacc : LostPayload(t) => LostPayload(t)'
      /\ \A p \in Reqs :
           (SendDone(p) /\ req[p].idx = Len(req[p].ids))
             => out' = Response("send", req[p].arg, 200, "", 0)
    ]_vars

\* C37 witness: the one payload that a POST /send has handed over, and for
\* which it has answered 200, is lost: the write of it has failed
C37_Witness ==
  /\ nacc = 1
  /\ LostPayload(1)
  /\ quota.sends = 0 /\ quota.frames = MaxFrames
  /\ \A p \in Reqs : req[p].pc = "idle"
  /\ \E c \in Conns : conn[c].st = "closed" /\ conn[c].wpc = "delete"
  /\ ~crashed

\* C38: a recipient list is gone through entry by entry and every entry
\* that names a registered identity gets a send of its own, in list order,
\* also when an earlier entry names the same identity: a POST /send or a
\* reader moves on by one entry at a time and leaves an entry that parses
\* and is registered only by completing the send to the identity it names,
\* with the writer of a connection of that identity.
C38_NoDeduplication ==
  [][ /\ \A p \in Reqs :
           (req[p].kind = "send" /\ req'[p] # req[p])
             => LET r == ParseUint(req[p].ids[req[p].idx]) IN
                /\ (req[p].pc = "loop" /\ r.err = "" /\ Lookup(r.val) # NilChan)
                     => /\ req'[p].pc = "push"
                        /\ req'[p].idx = req[p].idx
                        /\ req'[p].ch = Lookup(r.val)
                /\ (req[p].pc = "push")
                     => /\ \E w \in Conns :
                             /\ conn[w].wpc = "recv" /\ conn'[w].wpc = "write"
                             /\ conn[w].wch = req[p].ch
                             /\ conn[w].id = r.val
                        /\ IF req[p].idx = Len(req[p].ids)
                           THEN req'[p].pc = "idle"
                           ELSE /\ req'[p].pc = "loop"
                                /\ req'[p].idx = req[p].idx + 1
      /\ \A c \in Conns :
           (conn'[c].rpc # conn[c].rpc \/ conn'[c].ridx # conn[c].ridx)
             => /\ (conn[c].rpc = "loop"
                      /\ ParseUint(conn[c].rids[conn[c].ridx]).err = "")
                     => /\ conn'[c].rpc = "push"
                        /\ conn'[c].ridx = conn[c].ridx
                /\ (conn[c].rpc = "push")
                     => /\ \E w \in Conns :
                             /\ conn[w].wpc = "recv" /\ conn'[w].wpc = "write"
                             /\ conn[w].wch = conn[c].rch
                        /\ IF conn[c].ridx = Len(conn[c].rids)
                           THEN conn'[c].rpc = "read"
                           ELSE /\ conn'[c].rpc = "loop"
                                /\ conn'[c].ridx = conn[c].ridx + 1
    ]_vars

\* C38 witness: one POST /send to "1,1" with body "a" has put two entries
\* on the connection of identity 1, the one of the first occurrence before
\* the one of the second
C38_Witness ==
  /\ out = Response("send", <<"1", ",", "1">>, 200, "", 0)
  /\ \E c \in Conns :
       /\ conn[c].id = 1
       /\ Len(wire[c]) >= 1
       /\ wire[c][1][2] = <<"a", "\n">>
       /\ \/ Len(wire[c]) = 2 /\ wire[c][2][2] = <<"a", "\n", "\n">>
          \/ conn[c].wpc = "write" /\ conn[c].wmsg = <<"a", "\n", "\n">>

====
